---- MODULE Spec2Model ----
(***************************************************************************)
(* Model of bredtape/slogging: a logger whose minimum level lives in a     *)
(* shared slog.LevelVar that an http.Handler reads and writes.             *)
(*                                                                         *)
(* Three revisions of the package are modelled side by side; the variable  *)
(* variant says which one the process was built from:                      *)
(*   "log.go"    src/log.go           Create/SetDefaults/Fatal, the level  *)
(*                                    is parsed by slog.Level.UnmarshalText*)
(*   "part_000"  src/unnamed/part_000 Create/SetDefaults, ParseLevel       *)
(*   "part_001"  src/unnamed/part_001 SetDefault, ParseLevel               *)
(*                                                                         *)
(* Strings are sequences of one-character strings, so that splitting,      *)
(* case folding, quoting and number formatting are computed, not assumed.  *)
(***************************************************************************)
EXTENDS Integers, Sequences, FiniteSets, TLC

VARIABLES
    variant,        \* which revision of the package is running
    h,              \* logHandler{init, current}; current names a level cell
    loggerCell,     \* the cell the created logger's HandlerOptions.Level names
    defaultCell,    \* the cell consulted by the process-wide default logger
    cells,          \* the level cells (slog.LevelVar / Leveler values)
    exited,         \* TRUE once os.Exit was called
    exitCode,       \* the status passed to os.Exit
    lastOp,         \* the last completed operation and what it produced
    lastWrite,      \* the last write the handler applied to its cell
    pc,             \* interleaved runs: position of each goroutine
    req,            \* interleaved runs: the request a goroutine is serving
    started,        \* interleaved runs: number of operations started
    written,        \* interleaved runs: levels stored in full by some request
    lastApplied,    \* interleaved runs: the level of the latest store
    observed        \* interleaved runs: the levels read from the cell so far

vars ==
    <<variant, h, loggerCell, defaultCell, cells, exited, exitCode, lastOp,
      lastWrite, pc, req, started, written, lastApplied, observed>>

seqVars ==
    <<lastOp, lastWrite>>

concVars ==
    <<pc, req, started, written, lastApplied, observed>>

----------------------------------------------------------------------------
(* Characters and strings *)

UpperAlpha ==
    <<"A","B","C","D","E","F","G","H","I","J","K","L","M","N","O","P","Q","R","S","T","U","V","W","X","Y","Z">>

LowerAlpha ==
    <<"a","b","c","d","e","f","g","h","i","j","k","l","m","n","o","p","q","r","s","t","u","v","w","x","y","z">>

Digits ==
    <<"0","1","2","3","4","5","6","7","8","9">>

PosOf(c, alpha) ==
    IF \E i \in 1..Len(alpha) : alpha[i] = c
    THEN CHOOSE i \in 1..Len(alpha) : alpha[i] = c
    ELSE 0

\* strings.ToLower, on the ASCII letters
ToLower(s) ==
    [i \in 1..Len(s) |->
        IF PosOf(s[i], UpperAlpha) > 0 THEN LowerAlpha[PosOf(s[i], UpperAlpha)] ELSE s[i]]

\* strings.ToUpper, on the ASCII letters
ToUpper(s) ==
    [i \in 1..Len(s) |->
        IF PosOf(s[i], LowerAlpha) > 0 THEN UpperAlpha[PosOf(s[i], LowerAlpha)] ELSE s[i]]

RECURSIVE SplitFrom(_, _, _)
SplitFrom(s, i, cur) ==
    IF i > Len(s) THEN <<cur>>
    ELSE IF s[i] = "/" THEN <<cur>> \o SplitFrom(s, i + 1, <<>>)
    ELSE SplitFrom(s, i + 1, Append(cur, s[i]))

\* strings.Split(s, "/"): always at least one (possibly empty) part
Split(s) ==
    SplitFrom(s, 1, <<>>)

RECURSIVE Join(_, _)
\* strings.Join(xs, sep)
Join(xs, sep) ==
    IF Len(xs) = 0 THEN <<>>
    ELSE IF Len(xs) = 1 THEN xs[1]
    ELSE xs[1] \o sep \o Join(Tail(xs), sep)

\* strings.IndexAny(s, "+-"), 1-based, 0 when absent
IndexSign(s) ==
    IF \E i \in 1..Len(s) : s[i] \in {"+", "-"}
    THEN CHOOSE i \in 1..Len(s) :
            /\ s[i] \in {"+", "-"}
            /\ \A j \in 1..(i - 1) : s[j] \notin {"+", "-"}
    ELSE 0

RECURSIVE DigitsValue(_)
DigitsValue(s) ==
    IF Len(s) = 0 THEN 0
    ELSE 10 * DigitsValue(SubSeq(s, 1, Len(s) - 1)) + (PosOf(s[Len(s)], Digits) - 1)

\* strconv.Atoi: an optional sign, then one or more decimal digits
Atoi(s) ==
    LET signed == Len(s) > 0 /\ s[1] \in {"+", "-"}
        ds     == IF signed THEN Tail(s) ELSE s
        ok     == Len(ds) > 0 /\ \A i \in 1..Len(ds) : PosOf(ds[i], Digits) > 0
    IN  IF ~ok THEN [ok |-> FALSE, val |-> 0]
        ELSE [ok |-> TRUE,
              val |-> IF signed /\ s[1] = "-" THEN 0 - DigitsValue(ds) ELSE DigitsValue(ds)]

RECURSIVE NatString(_)
NatString(n) ==
    IF n < 10 THEN <<Digits[n + 1]>>
    ELSE NatString(n \div 10) \o <<Digits[(n % 10) + 1]>>

\* fmt's %+d
SignedString(n) ==
    IF n < 0 THEN <<"-">> \o NatString(0 - n) ELSE <<"+">> \o NatString(n)

RECURSIVE Escape(_)
Escape(s) ==
    IF Len(s) = 0 THEN <<>>
    ELSE (IF s[1] \in {"\"", "\\"} THEN <<"\\", s[1]>> ELSE <<s[1]>>) \o Escape(Tail(s))

\* fmt's %q of a string: double-quoted, with quote and backslash escaped
Quote(s) ==
    <<"\"">> \o Escape(s) \o <<"\"">>

\* strings.Contains(s, sub)
Contains(s, sub) ==
    \E i \in 0..(Len(s) - Len(sub)) :
        \A j \in 1..Len(sub) : s[i + j] = sub[j]

----------------------------------------------------------------------------
(* slog levels *)

LevelDebug ==
    0 - 4

LevelInfo ==
    0

LevelWarn ==
    4

LevelError ==
    8

\* the severity Fatal logs at: slog.LevelError+4
FatalLevel ==
    LevelError + 4

BaseString(base, val) ==
    IF val = 0 THEN base ELSE base \o SignedString(val)

\* LevelString printing the names in lower case
LevelString_Lower(l) ==
    IF l < LevelInfo THEN BaseString(<<"d","e","b","u","g">>, l - LevelDebug)
    ELSE IF l < LevelWarn THEN BaseString(<<"i","n","f","o">>, l - LevelInfo)
    ELSE IF l < LevelError THEN BaseString(<<"w","a","r","n">>, l - LevelWarn)
    ELSE BaseString(<<"e","r","r","o","r">>, l - LevelError)

\* slog.Level.String
LevelString(l) ==
    IF l < LevelInfo THEN BaseString(<<"D","E","B","U","G">>, l - LevelDebug)
    ELSE IF l < LevelWarn THEN BaseString(<<"I","N","F","O">>, l - LevelInfo)
    ELSE IF l < LevelError THEN BaseString(<<"W","A","R","N">>, l - LevelWarn)
    ELSE BaseString(<<"E","R","R","O","R">>, l - LevelError)

\* slog.Level.UnmarshalText: NAME or NAME+n or NAME-n, the name in any case
UnmarshalText(s) ==
    LET i      == IndexSign(s)
        name   == IF i > 0 THEN SubSeq(s, 1, i - 1) ELSE s
        offset == IF i > 0 THEN Atoi(SubSeq(s, i, Len(s))) ELSE [ok |-> TRUE, val |-> 0]
        up     == ToUpper(name)
        known  == up \in {<<"D","E","B","U","G">>, <<"I","N","F","O">>, <<"W","A","R","N">>, <<"E","R","R","O","R">>}
        base   == IF up = <<"D","E","B","U","G">> THEN LevelDebug
                  ELSE IF up = <<"I","N","F","O">> THEN LevelInfo
                  ELSE IF up = <<"W","A","R","N">> THEN LevelWarn
                  ELSE LevelError
    IN  IF offset.ok /\ known
        THEN [ok |-> TRUE, lvl |-> base + offset.val]
        ELSE [ok |-> FALSE, lvl |-> 0]

\* the ordered list of levels
levels ==
    <<LevelDebug, LevelInfo, LevelWarn, LevelError>>

\* init(): lower-cased name -> level
levelMap ==
    [k \in {ToLower(LevelString(levels[i])) : i \in 1..Len(levels)} |->
        levels[CHOOSE i \in 1..Len(levels) : ToLower(LevelString(levels[i])) = k]]

LevelsString ==
    Join([i \in 1..Len(levels) |-> LevelString(levels[i])], <<","," ">>)

\* ParseLevel ignoring the map's second result
ParseLevel_AnyName(s) ==
    IF ToLower(s) \in DOMAIN levelMap
    THEN [ok |-> TRUE, lvl |-> levelMap[ToLower(s)]]
    ELSE [ok |-> TRUE, lvl |-> 0]

ParseLevel(s) ==
    IF ToLower(s) \in DOMAIN levelMap
    THEN [ok |-> TRUE, lvl |-> levelMap[ToLower(s)]]
    ELSE [ok |-> FALSE, lvl |-> 0]

----------------------------------------------------------------------------
(* Level cells, loggers and the response writer *)

\* "v" is the slog.LevelVar the constructor allocates, "opts" the Leveler the
\* caller passed in, "std" the level of the runtime's own default logger
CellIds ==
    {"v", "opts", "std"}

\* a store done in two halves, seen between the halves
LevelVarSet_Torn(cs, id, l) ==
    [cs EXCEPT ![id] = ((cs[id] \div 8) * 8) + (l % 8)]

\* slog.LevelVar.Set: one atomic store
LevelVarSet(cs, id, l) ==
    [cs EXCEPT ![id] = l]

\* slog.LevelVar.Level: one atomic load
LevelVarLevel(cs, id) ==
    cs[id]

\* a logger's emit call: the record is written iff its level is at or above
\* the level its handler options name, read at the time of the call
LoggerLog(cs, id, level, msg, newLevel) ==
    IF level >= LevelVarLevel(cs, id)
    THEN <<[level |-> level, msg |-> msg, newLevel |-> newLevel]>>
    ELSE <<>>

NoHeader ==
    0

StatusOK ==
    200

StatusAccepted ==
    202

StatusBadRequest ==
    400

StatusMethodNotAllowed ==
    405

NewResponse ==
    [status |-> NoHeader, body |-> <<>>]

\* http.ResponseWriter.WriteHeader: the first status written stands
WriteHeader(w, code) ==
    IF w.status = NoHeader THEN [w EXCEPT !.status = code] ELSE w

\* Write leaving the status unset
Write_NoImplicitOK(w, bytes) ==
    [status |-> w.status, body |-> w.body \o bytes]

\* http.ResponseWriter.Write: implies 200 when no header was written
Write(w, bytes) ==
    [status |-> IF w.status = NoHeader THEN StatusOK ELSE w.status,
     body   |-> w.body \o bytes]

----------------------------------------------------------------------------
(* Construction *)

Variants ==
    {"log.go", "part_000", "part_001"}

\* Create remembering INFO instead of the level passed in
Create_InitInfo(level) ==
    [cells       |-> [id \in CellIds |->
                        IF id = "std" THEN LevelInfo ELSE level],
     loggerCell  |-> "v",
     h           |-> [init |-> LevelInfo, current |-> "v"],
     defaultCell |-> "std"]

\* Create handing the caller's Leveler, not the new LevelVar, to the logger
Create_OptsLevel(level) ==
    [cells       |-> [id \in CellIds |->
                        IF id = "std" THEN LevelInfo ELSE level],
     loggerCell  |-> "opts",
     h           |-> [init |-> level, current |-> "v"],
     defaultCell |-> "std"]

\* Create: the logger and the handler share the new LevelVar
Create(level) ==
    [cells       |-> [id \in CellIds |->
                        IF id = "std" THEN LevelInfo ELSE level],
     loggerCell  |-> "v",
     h           |-> [init |-> level, current |-> "v"],
     defaultCell |-> "std"]

\* SetDefaults: Create, then slog.SetDefault(logger)
SetDefaults(level) ==
    LET c == Create(level)
    IN  [c EXCEPT !.defaultCell = c.loggerCell]

\* SetDefault (oldest revision): the new logger is always the default one
SetDefault(level) ==
    [cells       |-> [id \in CellIds |->
                        IF id = "std" THEN LevelInfo ELSE level],
     loggerCell  |-> "v",
     h           |-> [init |-> level, current |-> "v"],
     defaultCell |-> "v"]

----------------------------------------------------------------------------
(* The control handler *)

UsageHint ==
    <<"s","p","e","c","i","f","y"," ","l","o","g"," ","l","e","v","e","l"," ","a","s"," ","l","a","s","t"," ","p","a","r","t"," ","o","f"," ","t","h","e"," ","U","R","L",","," ","e",".","g","."," ","P","U","T"," ","/","l","o","g","/","d","e","b","u","g">>

\* the 400 body without the input
UnknownLevelBody_NoInput(var, x) ==
    <<"u","n","k","n","o","w","n"," ","l","o","g"," ","l","e","v","e","l">>

\* the 400 body: fmt.Fprintf(w, "unknown log level %q...", x ...)
UnknownLevelBody(var, x) ==
    IF var = "log.go"
    THEN <<"u","n","k","n","o","w","n"," ","l","o","g"," ","l","e","v","e","l"," ">> \o Quote(x)
    ELSE <<"u","n","k","n","o","w","n"," ","l","o","g"," ","l","e","v","e","l"," ">> \o Quote(x) \o <<","," ","s","p","e","c","i","f","y"," ","o","n","e"," ","o","f"," ">> \o LevelsString

\* how the last path part becomes a level in each revision
ParseSegment(var, x) ==
    IF var = "log.go" THEN UnmarshalText(x) ELSE ParseLevel(x)

\* slog.LogAttrs / slog.Info: an emit call on the process-wide default logger
DefaultLog(cs, dflt, level, msg, newLevel) ==
    LoggerLog(cs, dflt, level, msg, newLevel)

ServeHTTP(var, hh, cs, dflt, method, path) ==
    IF method = "GET"
    THEN [cells |-> cs,
          w     |-> Write(NewResponse, LevelString(LevelVarLevel(cs, hh.current))),
          out   |-> <<>>]
    ELSE IF method \in {"PUT", "POST"}
    THEN LET xs == Split(path)
         IN  IF Len(xs) = 0
             THEN [cells |-> cs,
                   w     |-> Write(WriteHeader(NewResponse, StatusBadRequest), UsageHint),
                   out   |-> <<>>]
             ELSE LET x == xs[Len(xs)]
                      p == ParseSegment(var, x)
                  IN  IF ~p.ok
                      THEN [cells |-> cs,
                            w     |-> Write(WriteHeader(NewResponse, StatusBadRequest),
                                            UnknownLevelBody(var, x)),
                            out   |-> <<>>]
                      ELSE LET cs1 == LevelVarSet(cs, hh.current, p.lvl)
                           IN  [cells |-> cs1,
                                w     |-> WriteHeader(NewResponse, StatusAccepted),
                                out   |-> DefaultLog(cs1, dflt, LevelInfo,
                                                     "log level set", LevelString(p.lvl))]
    ELSE IF method = "DELETE"
    THEN LET cs1 == LevelVarSet(cs, hh.current, hh.init)
         IN  [cells |-> cs1,
              w     |-> WriteHeader(NewResponse, StatusAccepted),
              out   |-> DefaultLog(cs1, dflt, LevelInfo,
                                   "log level reset", LevelString(hh.init))]
    ELSE [cells |-> cs,
          w     |-> WriteHeader(NewResponse, StatusMethodNotAllowed),
          out   |-> <<>>]

\* Fatal: one emit call at ERROR+4 on the given logger, then os.Exit(1)
Fatal(cs, id) ==
    [out      |-> LoggerLog(cs, id, FatalLevel, "fatal", <<>>),
     exited   |-> TRUE,
     exitCode |-> 1]

----------------------------------------------------------------------------
(* Inputs *)

\* levels handed to the constructor; any slog.Level is allowed there
InitLevels ==
    {LevelDebug, LevelInfo, LevelWarn, LevelError, LevelError + 8}

P_debug ==
    <<"/","l","o","g","/","d","e","b","u","g">>

P_INFO ==
    <<"/","l","o","g","/","I","N","F","O">>

P_Warn ==
    <<"/","l","o","g","/","W","a","r","n">>

P_error ==
    <<"/","l","o","g","/","e","r","r","o","r">>

P_bogus ==
    <<"/","l","o","g","/","b","o","g","u","s">>

P_slash ==
    <<"/","l","o","g","/">>

P_log ==
    <<"/","l","o","g">>

P_empty ==
    <<>>

P_info2 ==
    <<"/","l","o","g","/","i","n","f","o","+","2">>

P_ERROR8 ==
    <<"/","l","o","g","/","E","R","R","O","R","+","8">>

P_warnm4 ==
    <<"/","l","o","g","/","w","a","r","n","-","4">>

P_quote ==
    <<"/","l","o","g","/","a","\"","b">>

P_infoplus ==
    <<"/","l","o","g","/","i","n","f","o","+">>

Paths ==
    {P_debug, P_INFO, P_Warn, P_error, P_bogus, P_slash, P_log, P_empty,
     P_info2, P_ERROR8, P_warnm4, P_quote, P_infoplus}

\* the requests tried: the path matters to PUT and POST only
Requests ==
    ({"PUT", "POST"} \X Paths) \cup ({"GET", "DELETE", "PATCH"} \X {P_log})

\* the requests tried in interleaved runs
ConcRequests ==
    ({"PUT"} \X {P_debug, P_error, P_bogus, P_ERROR8})
    \cup ({"POST"} \X {P_Warn})
    \cup ({"GET", "DELETE", "PATCH"} \X {P_log})

\* operations started in one interleaved run
MaxOps ==
    3

\* severities the application logs at
EmitLevels ==
    {LevelDebug, LevelInfo, LevelWarn, LevelError}

Procs ==
    {"r1", "r2"}

NoReq ==
    [method |-> "", ok |-> FALSE, lvl |-> 0, status |-> NoHeader]

NoOp ==
    [op |-> "none", method |-> "", path |-> <<>>, status |-> NoHeader, body |-> <<>>,
     pre |-> 0, sev |-> 0, out |-> <<>>]

NoWrite ==
    [method |-> "", path |-> <<>>]

----------------------------------------------------------------------------
(* The state machine, one operation at a time *)

Constructed ==
    {[variant |-> "log.go", c |-> Create(l)] : l \in InitLevels}
    \cup {[variant |-> "log.go", c |-> SetDefaults(l)] : l \in InitLevels}
    \cup {[variant |-> "part_000", c |-> Create(l)] : l \in InitLevels}
    \cup {[variant |-> "part_000", c |-> SetDefaults(l)] : l \in InitLevels}
    \cup {[variant |-> "part_001", c |-> SetDefault(l)] : l \in InitLevels}

Init ==
    /\ \E k \in Constructed :
        /\ variant = k.variant
        /\ h = k.c.h
        /\ loggerCell = k.c.loggerCell
        /\ defaultCell = k.c.defaultCell
        /\ cells = k.c.cells
    /\ exited = FALSE
    /\ exitCode = 0
    /\ lastOp = NoOp
    /\ lastWrite = NoWrite
    /\ pc = [p \in Procs |-> "idle"]
    /\ req = [p \in Procs |-> NoReq]
    /\ started = 0
    /\ written = {}
    /\ lastApplied = h.init
    /\ observed = {}

\* one HTTP request served from start to end
Request ==
    /\ ~exited
    /\ \E rq \in Requests :
        LET m == rq[1]
            p == rq[2]
            r == ServeHTTP(variant, h, cells, defaultCell, m, p)
        IN  /\ cells' = r.cells
            /\ lastOp' = [op |-> "http", method |-> m, path |-> p,
                          status |-> r.w.status, body |-> r.w.body,
                          pre |-> cells[h.current], sev |-> 0, out |-> r.out]
            /\ lastWrite' = IF m \in {"PUT", "POST", "DELETE"} /\ r.w.status = StatusAccepted
                            THEN [method |-> m, path |-> p]
                            ELSE lastWrite
    /\ UNCHANGED <<variant, h, loggerCell, defaultCell, exited, exitCode>>
    /\ UNCHANGED concVars

\* the application logs one record through the created logger
Emit ==
    /\ ~exited
    /\ \E s \in EmitLevels :
        lastOp' = [op |-> "emit", method |-> "", path |-> <<>>, status |-> NoHeader,
                   body |-> <<>>, pre |-> cells[h.current], sev |-> s,
                   out |-> LoggerLog(cells, loggerCell, s, "app", <<>>)]
    /\ UNCHANGED <<variant, h, loggerCell, defaultCell, cells, exited, exitCode, lastWrite>>
    /\ UNCHANGED concVars

\* the application calls Fatal with the created logger (src/log.go only)
CallFatal ==
    /\ ~exited
    /\ variant = "log.go"
    /\ LET f == Fatal(cells, loggerCell)
       IN  /\ exited' = f.exited
           /\ exitCode' = f.exitCode
           /\ lastOp' = [op |-> "fatal", method |-> "", path |-> <<>>, status |-> NoHeader,
                         body |-> <<>>, pre |-> cells[h.current], sev |-> FatalLevel,
                         out |-> f.out]
    /\ UNCHANGED <<variant, h, loggerCell, defaultCell, cells, lastWrite>>
    /\ UNCHANGED concVars

Next ==
    \/ Request
    \/ Emit
    \/ CallFatal

Spec ==
    Init /\ [][Next]_vars

----------------------------------------------------------------------------
(* The same program with requests and emit calls interleaved: each goroutine *)
(* serving a request takes one step per access to shared state.              *)

\* a request arrives: method dispatch and parsing touch no shared state
Begin(p) ==
    /\ ~exited
    /\ pc[p] \in {"idle", "done"}
    /\ started < MaxOps
    /\ started' = started + 1
    /\ \E rq \in ConcRequests :
        LET m   == rq[1]
            xs  == Split(rq[2])
            prs == ParseSegment(variant, xs[Len(xs)])
        IN  IF m = "GET"
            THEN /\ req' = [req EXCEPT ![p] = [NoReq EXCEPT !.method = m]]
                 /\ pc' = [pc EXCEPT ![p] = "load"]
            ELSE IF m \in {"PUT", "POST"}
            THEN IF Len(xs) = 0 \/ ~prs.ok
                 THEN /\ req' = [req EXCEPT ![p] =
                                    [method |-> m, ok |-> FALSE, lvl |-> 0,
                                     status |-> WriteHeader(NewResponse, StatusBadRequest).status]]
                      /\ pc' = [pc EXCEPT ![p] = "done"]
                 ELSE /\ req' = [req EXCEPT ![p] =
                                    [method |-> m, ok |-> TRUE, lvl |-> prs.lvl,
                                     status |-> NoHeader]]
                      /\ pc' = [pc EXCEPT ![p] = "store"]
            ELSE IF m = "DELETE"
            THEN /\ req' = [req EXCEPT ![p] =
                               [method |-> m, ok |-> TRUE, lvl |-> h.init, status |-> NoHeader]]
                 /\ pc' = [pc EXCEPT ![p] = "store"]
            ELSE /\ req' = [req EXCEPT ![p] =
                               [method |-> m, ok |-> FALSE, lvl |-> 0,
                                status |-> WriteHeader(NewResponse, StatusMethodNotAllowed).status]]
                 /\ pc' = [pc EXCEPT ![p] = "done"]
    /\ UNCHANGED <<variant, h, loggerCell, defaultCell, cells, exited, exitCode>>
    /\ UNCHANGED <<written, lastApplied, observed>>
    /\ UNCHANGED seqVars

\* GET: h.current.Level(), then the body is written
Load(p) ==
    /\ pc[p] = "load"
    /\ LET v == LevelVarLevel(cells, h.current)
       IN  /\ req' = [req EXCEPT ![p] =
                         [method |-> "GET", ok |-> TRUE, lvl |-> v,
                          status |-> Write(NewResponse, LevelString(v)).status]]
           /\ observed' = observed \cup {v}
    /\ pc' = [pc EXCEPT ![p] = "done"]
    /\ UNCHANGED <<variant, h, loggerCell, defaultCell, cells, exited, exitCode>>
    /\ UNCHANGED <<started, written, lastApplied>>
    /\ UNCHANGED seqVars

\* PUT, POST, DELETE: h.current.Set(...)
Store(p) ==
    /\ pc[p] = "store"
    /\ cells' = LevelVarSet(cells, h.current, req[p].lvl)
    /\ written' = written \cup {req[p].lvl}
    /\ lastApplied' = req[p].lvl
    /\ pc' = [pc EXCEPT ![p] = "log"]
    /\ UNCHANGED <<variant, h, loggerCell, defaultCell, exited, exitCode>>
    /\ UNCHANGED <<req, started, observed>>
    /\ UNCHANGED seqVars

\* PUT, POST, DELETE: w.WriteHeader(202), then the emit call on the default
\* logger, which loads that logger's level
LogStep(p) ==
    /\ pc[p] = "log"
    /\ req' = [req EXCEPT ![p].status = WriteHeader(NewResponse, StatusAccepted).status]
    /\ observed' = IF defaultCell = h.current
                   THEN observed \cup {LevelVarLevel(cells, defaultCell)}
                   ELSE observed
    /\ pc' = [pc EXCEPT ![p] = "done"]
    /\ UNCHANGED <<variant, h, loggerCell, defaultCell, cells, exited, exitCode>>
    /\ UNCHANGED <<started, written, lastApplied>>
    /\ UNCHANGED seqVars

\* an emit call of the application, concurrent with the requests
EmitStep ==
    /\ ~exited
    /\ started < MaxOps
    /\ started' = started + 1
    /\ observed' = observed \cup {LevelVarLevel(cells, loggerCell)}
    /\ UNCHANGED <<variant, h, loggerCell, defaultCell, cells, exited, exitCode>>
    /\ UNCHANGED <<pc, req, written, lastApplied>>
    /\ UNCHANGED seqVars

NextC ==
    \/ \E p \in Procs : Begin(p)
    \/ \E p \in Procs : Load(p)
    \/ \E p \in Procs : Store(p)
    \/ \E p \in Procs : LogStep(p)
    \/ EmitStep

SpecC ==
    Init /\ [][NextC]_vars

----------------------------------------------------------------------------
(* What the requests of the input set are expected to mean, written down   *)
(* by hand and independently of the operators above.                       *)

CatalogueLevels ==
    {0 - 4, 0, 4, 8}

CatalogueNames ==
    {<<"d","e","b","u","g">>, <<"i","n","f","o">>, <<"w","a","r","n">>, <<"e","r","r","o","r">>}

\* paths whose last part is a catalogue name, in some case
CataloguePaths ==
    {P_debug, P_INFO, P_Warn, P_error}

\* paths whose last part is a catalogue name followed by a signed offset
OffsetPaths ==
    {P_info2, P_ERROR8, P_warnm4}

AcceptedPaths(var) ==
    IF var = "log.go" THEN CataloguePaths \cup OffsetPaths ELSE CataloguePaths

NamedLevel ==
    (P_debug :> (0 - 4)) @@ (P_INFO :> 0) @@ (P_Warn :> 4) @@ (P_error :> 8)
    @@ (P_info2 :> 2) @@ (P_ERROR8 :> 16) @@ (P_warnm4 :> 0)

CanonicalName ==
    ((0 - 4) :> <<"D","E","B","U","G">>) @@ (0 :> <<"I","N","F","O">>) @@ (4 :> <<"W","A","R","N">>) @@ (8 :> <<"E","R","R","O","R">>)
    @@ (2 :> <<"I","N","F","O","+","2">>) @@ (16 :> <<"E","R","R","O","R","+","8">>)

LastPart ==
    (P_debug :> <<"d","e","b","u","g">>) @@ (P_INFO :> <<"I","N","F","O">>) @@ (P_Warn :> <<"W","a","r","n">>)
    @@ (P_error :> <<"e","r","r","o","r">>) @@ (P_bogus :> <<"b","o","g","u","s">>) @@ (P_slash :> <<>>)
    @@ (P_log :> <<"l","o","g">>) @@ (P_empty :> <<>>) @@ (P_info2 :> <<"i","n","f","o","+","2">>)
    @@ (P_ERROR8 :> <<"E","R","R","O","R","+","8">>) @@ (P_warnm4 :> <<"w","a","r","n","-","4">>)
    @@ (P_quote :> <<"a","\"","b">>) @@ (P_infoplus :> <<"i","n","f","o","+">>)

\* the last part as Go's %q prints it
QuotedPart ==
    (P_bogus :> <<"\"","b","o","g","u","s","\"">>) @@ (P_slash :> <<"\"","\"">>)
    @@ (P_log :> <<"\"","l","o","g","\"">>) @@ (P_empty :> <<"\"","\"">>) @@ (P_info2 :> <<"\"","i","n","f","o","+","2","\"">>)
    @@ (P_ERROR8 :> <<"\"","E","R","R","O","R","+","8","\"">>) @@ (P_warnm4 :> <<"\"","w","a","r","n","-","4","\"">>)
    @@ (P_quote :> <<"\"","a","\\","\"","b","\"">>) @@ (P_infoplus :> <<"\"","i","n","f","o","+","\"">>)

\* a catalogue name in any case, optionally followed by a sign and digits
NameWithOffset(seg) ==
    \/ ToLower(seg) \in CatalogueNames
    \/ \E i \in 2..(Len(seg) - 1) :
        /\ ToLower(SubSeq(seg, 1, i - 1)) \in CatalogueNames
        /\ seg[i] \in {"+", "-"}
        /\ \A j \in (i + 1)..Len(seg) : seg[j] \in {"0", "1", "2", "3", "4", "5", "6", "7", "8", "9"}

IsHttp(methods) ==
    lastOp.op = "http" /\ lastOp.method \in methods

Current ==
    cells[h.current]

----------------------------------------------------------------------------
(* Claims *)

\* C1: every PUT or POST whose last path part names a level X answers 202 and
\* leaves X in the shared cell, and a GET with no write in between answers
\* 200 with exactly X's canonical name, whatever came before.
C1_RoundTrip ==
    /\ (IsHttp({"PUT", "POST"}) /\ lastOp.path \in AcceptedPaths(variant))
        => (lastOp.status = 202 /\ Current = NamedLevel[lastOp.path])
    /\ (IsHttp({"GET"}) /\ lastWrite.method \in {"PUT", "POST"})
        => (lastOp.status = 200 /\ lastOp.body = CanonicalName[NamedLevel[lastWrite.path]])

C1_Witness ==
    /\ IsHttp({"GET"})
    /\ lastWrite = [method |-> "PUT", path |-> P_Warn]
    /\ lastOp.body = <<"W","A","R","N">>
    /\ h.init # 4

\* C2 as stated: a PUT or POST whose last path part is not a level answers
\* 400 with a body that contains the invalid input, leaves the cell as it
\* was and emits no log record.
C2_Original ==
    (IsHttp({"PUT", "POST"}) /\ lastOp.path \notin AcceptedPaths(variant))
        => /\ lastOp.status = 400
           /\ Contains(lastOp.body, LastPart[lastOp.path])
           /\ Current = lastOp.pre
           /\ lastOp.out = <<>>

\* C2 as amended: the body contains the invalid input as %q prints it, in
\* double quotes with every double quote and backslash of the input escaped.
C2_Amended ==
    (IsHttp({"PUT", "POST"}) /\ lastOp.path \notin AcceptedPaths(variant))
        => /\ lastOp.status = 400
           /\ Contains(lastOp.body, QuotedPart[lastOp.path])
           /\ Current = lastOp.pre
           /\ lastOp.out = <<>>

C2_Witness ==
    /\ IsHttp({"PUT"})
    /\ lastOp.path = P_quote
    /\ lastOp.status = 400
    /\ lastWrite.method = "POST"
    /\ Current # h.init

\* C3: DELETE answers 202 and leaves the cell at the level passed at
\* construction, however many writes came before and however often it is
\* repeated; the handler's stored initial level never changes.
C3_DeleteResets ==
    /\ h.init = cells["opts"]
    /\ IsHttp({"DELETE"}) => (lastOp.status = 202 /\ Current = cells["opts"])

C3_Witness ==
    /\ IsHttp({"DELETE"})
    /\ lastOp.pre # h.init
    /\ Current = h.init

\* C4: GET answers 200 with the current level's name, any method other than
\* GET, PUT, POST, DELETE answers 405 with an empty body; neither changes the
\* cell nor emits a log record.
C4_ReadOnly ==
    /\ IsHttp({"GET"})
        => /\ lastOp.status = 200
           /\ lastOp.body = CanonicalName[lastOp.pre]
           /\ Current = lastOp.pre
           /\ lastOp.out = <<>>
    /\ IsHttp({"PATCH"})
        => /\ lastOp.status = 405
           /\ lastOp.body = <<>>
           /\ Current = lastOp.pre
           /\ lastOp.out = <<>>

C4_Witness ==
    /\ IsHttp({"PATCH"})
    /\ lastOp.status = 405
    /\ lastWrite.method = "PUT"
    /\ Current # h.init

\* C5 as stated: PUT or POST on a path ending in "/" answers 400 with the
\* usage-hint body and leaves the level unchanged.
C5_Original ==
    (IsHttp({"PUT", "POST"}) /\ lastOp.path = P_slash)
        => /\ lastOp.status = 400
           /\ lastOp.body = <<"s","p","e","c","i","f","y"," ","l","o","g"," ","l","e","v","e","l"," ","a","s"," ","l","a","s","t"," ","p","a","r","t"," ","o","f"," ","t","h","e"," ","U","R","L",","," ","e",".","g","."," ","P","U","T"," ","/","l","o","g","/","d","e","b","u","g">>
           /\ Current = lastOp.pre

\* C6: the logger and the handler use one cell: an emit call at severity s
\* produces a record iff s is at or above the handler's current level; after
\* the handler set warn, info is dropped while warn and error are written.
C6_Threshold ==
    /\ lastOp.op = "emit"
        => /\ ((lastOp.out # <<>>) <=> (lastOp.sev >= Current))
           /\ Len(lastOp.out) <= 1
           /\ \A i \in 1..Len(lastOp.out) : lastOp.out[i].level = lastOp.sev
    /\ (lastOp.op = "emit" /\ lastWrite.method \in {"PUT", "POST"}
            /\ lastWrite.path = P_Warn)
        => ((lastOp.out = <<>>) <=> (lastOp.sev < 4))

C6_Witness ==
    /\ lastOp.op = "emit"
    /\ lastOp.sev = 0
    /\ lastOp.out = <<>>
    /\ lastWrite = [method |-> "PUT", path |-> P_Warn]
    /\ h.init <= 0

\* C7 as stated: every PUT, POST or DELETE that answers 202 emits exactly one
\* info-level record naming the new level, for every level and also when the
\* logger is the process-wide default.
C7_Original ==
    IsHttp({"PUT", "POST", "DELETE"}) /\ lastOp.status = 202
        => /\ Len(lastOp.out) = 1
           /\ lastOp.out[1].level = 0
           /\ lastOp.out[1].newLevel = CanonicalName[Current]

\* C8 as stated: whatever the cell holds, Fatal produces one record at
\* ERROR+4 and ends the process with a non-zero status.
C8_Original ==
    lastOp.op = "fatal"
        => /\ Len(lastOp.out) = 1
           /\ lastOp.out[1].level = 12
           /\ exited
           /\ exitCode # 0

NormalStatus(r) ==
    IF r.method = "GET" THEN 200
    ELSE IF r.method = "DELETE" THEN 202
    ELSE IF r.method \in {"PUT", "POST"} THEN (IF r.ok THEN 202 ELSE 400)
    ELSE 405

\* C9: with requests and emit calls interleaved, every request ends with its
\* normal status, the cell holds the level of the store applied last, and
\* every load sees the initial level or a level some request stored.
C9_Interleaved ==
    /\ \A p \in Procs : pc[p] = "done" => req[p].status = NormalStatus(req[p])
    /\ Current = lastApplied
    /\ observed \subseteq ({h.init} \cup written)

C9_Witness ==
    /\ pc["r1"] = "log"
    /\ pc["r2"] = "done"
    /\ req["r2"].method \in {"PUT", "POST"}
    /\ req["r2"].status = 202
    /\ req["r1"].lvl # req["r2"].lvl
    /\ Current = req["r2"].lvl
    /\ req["r2"].lvl \in observed

\* C10 as stated: PUT or POST succeeds only when the last path part is, in
\* some case, one of debug, info, warn, error, so the cell always holds a
\* catalogue level or the initial level.
C10_Original ==
    /\ Current \in CatalogueLevels \cup {h.init}
    /\ (IsHttp({"PUT", "POST"}) /\ lastOp.status = 202)
        => ToLower(LastPart[lastOp.path]) \in CatalogueNames

\* C10 as amended: that holds of the revisions that parse with ParseLevel;
\* in src/log.go PUT or POST succeeds only when the last path part is a
\* catalogue name, in some case, optionally followed by a sign and decimal
\* digits, and the cell then holds the named level plus that offset.
C10_Amended ==
    /\ variant # "log.go"
        => /\ Current \in CatalogueLevels \cup {h.init}
           /\ (IsHttp({"PUT", "POST"}) /\ lastOp.status = 202)
                => ToLower(LastPart[lastOp.path]) \in CatalogueNames
    /\ (variant = "log.go" /\ IsHttp({"PUT", "POST"}) /\ lastOp.status = 202)
        => /\ NameWithOffset(LastPart[lastOp.path])
           /\ Current = NamedLevel[lastOp.path]

C10_Witness ==
    /\ variant = "part_000"
    /\ IsHttp({"POST"})
    /\ lastOp.path = P_Warn
    /\ lastOp.status = 202
    /\ Current = 4
    /\ h.init = 16

====
